---- MODULE Spec2Model ----
(***************************************************************************)
(* Model of src/images.py: the `upload` command of the image upload CLI.   *)
(* One invocation loads a YAML manifest, resizes a local image to widths   *)
(* 1600 and 75, and uploads both variants to S3-compatible storage.        *)
(***************************************************************************)
EXTENDS Integers, Sequences, FiniteSets, TLC

(***************************************************************************)
(* Python float arithmetic (IEEE-754 binary64, round-to-nearest-even), as  *)
(* used by lines 37-38.  A significand is a sequence of bits, most         *)
(* significant first; a float is [sig, frac] with value Nat(sig) / 2^frac. *)
(***************************************************************************)

\* Significand width of a Python float.
MantissaBits == 53

\* F(v), with v evaluated once (a local variable of the computation).
With(v, F(_)) ==
    CHOOSE r \in {F(x) : x \in {v}} : TRUE

Pow2(n) ==
    2 ^ n

\* The k low binary digits of n, most significant first.
FixedBits(n, k) ==
    [i \in 1..k |-> (n \div Pow2(k - i)) % 2]

RECURSIVE BitLen(_)
\* Number of binary digits of n (0 for 0).
BitLen(n) ==
    IF n = 0 THEN 0 ELSE 1 + BitLen(n \div 2)

\* Binary digits of n, most significant first, no leading zero.
NatBits(n) ==
    FixedBits(n, BitLen(n))

RECURSIVE BitsNatRange(_, _, _)
\* The number that bits lo..hi of b denote.
BitsNatRange(b, lo, hi) ==
    IF hi < lo THEN 0
    ELSE 2 * BitsNatRange(b, lo, hi - 1) + b[hi]

\* The number a bit sequence denotes.
BitsNat(b) ==
    BitsNatRange(b, 1, Len(b))

\* b + 1 on bit sequences (one bit longer when b is all ones): a bit flips
\* when all the bits below it are ones.
Increment(b) ==
    IF \A i \in 1..Len(b) : b[i] = 1
    THEN << 1 >> \o [i \in 1..Len(b) |-> 0]
    ELSE [i \in 1..Len(b) |->
            IF \A l \in (i + 1)..Len(b) : b[l] = 1 THEN 1 - b[i] ELSE b[i]]

\* Round-to-nearest-even of sig (MantissaBits bits, frac fractional bits):
\* up says whether the discarded tail rounds the significand up.
RoundSig(sig, frac, up) ==
    IF ~up THEN [sig |-> sig, frac |-> frac]
    ELSE With(Increment(sig), LAMBDA inc :
           IF Len(inc) > MantissaBits
           THEN [sig |-> SubSeq(inc, 1, MantissaBits), frac |-> frac - 1]
           ELSE [sig |-> inc, frac |-> frac])

RECURSIVE LeadingZeros(_, _)
\* Number of zero bits after the binary point of r/d, 0 < r < d.
LeadingZeros(r, d) ==
    IF 2 * r >= d THEN 0 ELSE 1 + LeadingZeros(2 * r, d)

RECURSIVE FracBits(_, _, _)
\* The next n bits of the binary expansion of r/d (0 <= r < d) and the
\* remainder left after them: long division, 16 binary digits at a time.
FracBits(r, d, n) ==
    IF n = 0 THEN [bits |-> << >>, rem |-> r]
    ELSE With(IF n < 16 THEN n ELSE 16, LAMBDA k :
         With(r * Pow2(k), LAMBDA t :
         With(FracBits(t % d, d, n - k), LAMBDA rest :
           [bits |-> FixedBits(t \div d, k) \o rest.bits, rem |-> rest.rem])))

\* Python's int / int true division: the correctly rounded quotient a / b.
FloatDiv(a, b) ==
    With(NatBits(a \div b), LAMBDA ip :
    With(IF a \div b = 0 THEN LeadingZeros(a % b, b) ELSE 0, LAMBDA z :
    With(FracBits((a % b) * Pow2(z), b, MantissaBits - Len(ip)), LAMBDA fb :
    With(ip \o fb.bits, LAMBDA sig :
      RoundSig(sig, z + MantissaBits - Len(ip),
               \/ 2 * fb.rem > b
               \/ 2 * fb.rem = b /\ sig[MantissaBits] = 1)))))

RECURSIVE MulBits(_, _, _)
\* Exact product of a bit sequence and a small integer m (plus carry), taken
\* 16 bits at a time from the least significant end.
MulBits(bits, m, carry) ==
    IF bits = << >> THEN NatBits(carry)
    ELSE With(IF Len(bits) < 16 THEN Len(bits) ELSE 16, LAMBDA k :
         With(BitsNatRange(bits, Len(bits) - k + 1, Len(bits)) * m + carry,
              LAMBDA t :
         With(SubSeq(bits, 1, Len(bits) - k), LAMBDA high :
         With(MulBits(high, m, t \div Pow2(k)), LAMBDA rest :
           rest \o FixedBits(t % Pow2(k), k)))))

\* Python's int * float: the integer (exactly representable) times f,
\* rounded to nearest even.
FloatMul(m, f) ==
    With(MulBits(f.sig, m, 0), LAMBDA p :
    With(Len(p) - MantissaBits, LAMBDA k :
      RoundSig(SubSeq(p, 1, MantissaBits), f.frac - k,
               /\ k > 0
               /\ p[MantissaBits + 1] = 1
               /\ \/ \E i \in (MantissaBits + 2)..Len(p) : p[i] = 1
                  \/ p[MantissaBits] = 1)))

\* Python's int(float): truncation toward zero (f >= 0 here).
FloatToInt(f) ==
    IF f.frac >= MantissaBits THEN 0
    ELSE IF f.frac <= 0 THEN BitsNat(f.sig) * Pow2(0 - f.frac)
    ELSE BitsNatRange(f.sig, 1, MantissaBits - f.frac)

\* n / d rounded to the nearest integer, ties to even (Python's round).
RoundHalfEven(n, d) ==
    LET q == n \div d
        r == n % d
    IN  IF 2 * r < d THEN q
        ELSE IF 2 * r > d THEN q + 1
        ELSE IF q % 2 = 0 THEN q ELSE q + 1

\* Variant: the height rounded to nearest instead of truncated.
TargetHeightRounded(target_width, width, height) ==
    RoundHalfEven(target_width * height, width)

\* Lines 37-38: target_height = int(target_width * (img.height / img.width)).
TargetHeight(target_width, width, height) ==
    With(FloatDiv(height, width), LAMBDA aspect_ratio :
    With(FloatMul(target_width, aspect_ratio), LAMBDA product :
      FloatToInt(product)))

(***************************************************************************)
(* Values of the program.                                                  *)
(***************************************************************************)

\* Python's None, where a string is expected (dict.get, os.environ.get).
PyNone == "<None>"

\* Python truthiness of an optional string: None and "" are falsy.
Falsy(v) == v = PyNone \/ v = ""

\* Line 19: the default bucket.
S3_BUCKET == "302f9aa7-62c4d4d3-ccfd-4077-86c8-cca52e0da376"

\* Line 163: width of the main variant.
MainWidth == 1600

\* Line 166: width of the preview variant.
PreviewWidth == 75

\* Modes the JPEG encoder of line 49 accepts (Pillow's JPEG writer); any
\* other mode makes save() raise OSError.
JpegModes == {"1", "L", "RGB", "RGBX", "CMYK", "YCbCr"}

\* Lines 44-45: the mode handed to the encoder.
EncodeMode(mode) ==
    IF mode \in {"RGBA", "P"} THEN "RGB" ELSE mode

\* An absent buffer / an absent stored object.
NoBuffer == [width |-> 0, height |-> 0, mode |-> "none"]

ResizeFailure(target_width, error) ==
    [target_width |-> target_width, ok |-> FALSE, error |-> error,
     encoder_mode |-> "none", image |-> NoBuffer]

\* Lines 35-52: resize_image.  img is the file at image_path:
\* [exists, decodable, mode, width, height].
resize_image(img, target_width) ==
    IF ~img.exists THEN ResizeFailure(target_width, "FileNotFoundError")
    ELSE IF ~img.decodable
    THEN ResizeFailure(target_width, "UnidentifiedImageError")
    ELSE With(TargetHeight(target_width, img.width, img.height),
              LAMBDA target_height :
         With(EncodeMode(img.mode), LAMBDA mode :
           IF target_height < 1
           THEN \* Image.resize rejects an empty size
                ResizeFailure(target_width, "ValueError")
           ELSE IF mode \notin JpegModes
           THEN [target_width |-> target_width, ok |-> FALSE,
                 error |-> "OSError", encoder_mode |-> mode,
                 image |-> NoBuffer]
           ELSE [target_width |-> target_width, ok |-> TRUE,
                 error |-> "", encoder_mode |-> mode,
                 image |-> [width |-> target_width,
                            height |-> target_height, mode |-> mode]]))

(***************************************************************************)
(* Bounds and input sets.                                                  *)
(***************************************************************************)

\* Longest images list of a manifest.
MaxImages == 2

\* Invocations of the command in one behaviour.
MaxRuns == 2

\* Largest source width and height drawn for resize_image on its own.
MaxDim == 24

\* Target widths 1..MaxExtraWidth are drawn besides the two the command uses.
MaxExtraWidth == 3

Keys == {"a/main.jpg", "a/prev.jpg"}

Buckets == {S3_BUCKET, "other-bucket"}

\* Entries of an images list: a complete entry, one whose two keys are the
\* same string, one without url, one with an empty preview_url, and a scalar
\* (on which .get raises AttributeError).
Entries ==
    {[is_mapping |-> TRUE, url |-> "a/main.jpg", preview_url |-> "a/prev.jpg"],
     [is_mapping |-> TRUE, url |-> "a/main.jpg", preview_url |-> "a/main.jpg"],
     [is_mapping |-> TRUE, url |-> PyNone, preview_url |-> "a/prev.jpg"],
     [is_mapping |-> TRUE, url |-> "a/main.jpg", preview_url |-> ""],
     [is_mapping |-> FALSE, url |-> PyNone, preview_url |-> PyNone]}

SeqsUpTo(S, n) == UNION {[1..k -> S] : k \in 0..n}

\* The file at summit_path: missing, not YAML, a document that is no
\* mapping (safe_load returns None), or a mapping with or without images.
Manifests ==
    {[kind |-> k, has_images |-> FALSE, images |-> << >>] :
        k \in {"missing", "bad_yaml", "null", "mapping"}}
    \cup {[kind |-> "mapping", has_images |-> TRUE, images |-> l] :
            l \in SeqsUpTo(Entries, MaxImages)}

Indexes == (0 - 1)..(MaxImages + 1)

ImageFile(exists, decodable, mode, width, height) ==
    [exists |-> exists, decodable |-> decodable, mode |-> mode,
     width |-> width, height |-> height]

MissingImage == ImageFile(FALSE, FALSE, "none", 0, 0)

UndecodableImage == ImageFile(TRUE, FALSE, "none", 0, 0)

Modes == {"RGB", "L", "RGBA", "P", "LA", "CMYK"}

\* Files at image_path drawn for the command: missing, not an image, one
\* that resizes and encodes, one whose mode the encoder rejects, and one so
\* flat that its preview height is 0.
SourceImages ==
    {MissingImage, UndecodableImage,
     ImageFile(TRUE, TRUE, "RGB", 3200, 1800),
     ImageFile(TRUE, TRUE, "LA", 4, 3),
     ImageFile(TRUE, TRUE, "RGB", 100, 1)}

\* Files drawn for resize_image on its own.
ResizeImages ==
    {MissingImage, UndecodableImage}
    \cup {ImageFile(TRUE, TRUE, m, w, h) :
            m \in Modes, w \in 1..MaxDim, h \in 1..MaxDim}

TargetWidths == {MainWidth, PreviewWidth} \cup 1..MaxExtraWidth

EnvVals == {PyNone, "", "secret"}

Envs == [S3_ACCESS_KEY : EnvVals, S3_SECRET_KEY : EnvVals]

\* The environment before the program has read it.
EnvUnread == [S3_ACCESS_KEY |-> "<unread>", S3_SECRET_KEY |-> "<unread>"]

\* The file at image_path before the program has opened it.
ImageUnread == ImageFile(FALSE, FALSE, "<unread>", 0, 0)

Args == [summit : Manifests, index : Indexes, bucket : Buckets]

NoArgs == [summit |-> [kind |-> "none", has_images |-> FALSE, images |-> << >>],
           index |-> 0, bucket |-> ""]

NoResize == ResizeFailure(0, "none")

(***************************************************************************)
(* State.                                                                  *)
(***************************************************************************)
VARIABLES
    pc,            \* position of the command: idle, load, resize_main,
                   \* resize_preview, upload_main, upload_preview, done
    runs,          \* invocations so far
    args,          \* --summit-path (the file's content), --index, --bucket
    image_file,    \* the file at --image-path, as opened by resize_image
    env,           \* S3_ACCESS_KEY / S3_SECRET_KEY as read by upload_to_s3
    url,           \* line 148
    preview_url,   \* line 149
    main_image,    \* line 163
    preview_image, \* line 166
    last_resize,   \* outcome of the latest resize_image call
    storage,       \* the object store: <<bucket, key>> -> object
    storage_at_start, \* the object store when the command was invoked
    trace,         \* steps of this run, in order
    clients,       \* boto3.client calls of this run
    net,           \* upload_fileobj calls of this run
    stdout,        \* typer.echo / secho output of this run
    stderr,        \* secho(err=True) output of this run
    exit_code      \* -1 while running

vars == << pc, runs, args, image_file, env, url, preview_url, main_image,
           preview_image, last_resize, storage, storage_at_start, trace,
           clients, net, stdout, stderr, exit_code >>

Msg(kind, detail, index, n) ==
    [kind |-> kind, detail |-> detail, index |-> index, n |-> n]

\* Lines 175-177.
OnFileNotFound == << Msg("file_not_found", "FileNotFoundError", 0, 0) >>

\* Lines 178-180.
OnYAMLError == << Msg("yaml_error", "YAMLError", 0, 0) >>

\* Lines 181-183: f"Error: {e}" for any other exception e.
OnException(e) == << Msg("error", e, 0, 0) >>

\* typer.Exit(code=1) raised inside the try block is itself an Exception
\* (click's Exit is a RuntimeError): lines 181-183 catch it, print
\* "Error: " with its empty text and exit with code 1 again.
OnExit == OnException("")

Init ==
    /\ pc = "idle"
    /\ runs = 0
    /\ args = NoArgs
    /\ image_file = ImageUnread
    /\ env = EnvUnread
    /\ url = PyNone
    /\ preview_url = PyNone
    /\ main_image = NoBuffer
    /\ preview_image = NoBuffer
    /\ last_resize = NoResize
    /\ storage = [o \in Buckets \X Keys |-> NoBuffer]
    /\ storage_at_start = storage
    /\ trace = << >>
    /\ clients = 0
    /\ net = << >>
    /\ stdout = << >>
    /\ stderr = << >>
    /\ exit_code = 0 - 1

\* The shell runs the command: typer has validated the options.
Invoke ==
    /\ pc = "idle"
    /\ runs < MaxRuns
    /\ runs' = runs + 1
    /\ args' \in Args
    /\ pc' = "load"
    /\ storage_at_start' = storage
    /\ UNCHANGED << image_file, env, url, preview_url, main_image,
                    preview_image, last_resize, storage, trace, clients, net,
                    stdout, stderr, exit_code >>

\* The process has exited: nothing of it remains but the object store.
Exit ==
    /\ pc = "done"
    /\ pc' = "idle"
    /\ args' = NoArgs
    /\ image_file' = ImageUnread
    /\ env' = EnvUnread
    /\ url' = PyNone
    /\ preview_url' = PyNone
    /\ main_image' = NoBuffer
    /\ preview_image' = NoBuffer
    /\ last_resize' = NoResize
    /\ trace' = << >>
    /\ clients' = 0
    /\ net' = << >>
    /\ stdout' = << >>
    /\ stderr' = << >>
    /\ exit_code' = 0 - 1
    /\ storage_at_start' = storage
    /\ UNCHANGED << runs, storage >>

\* Variant: a handler that prints the message and returns instead of raising
\* typer.Exit(code=1), so that the process ends with code 0.
FailExitZero(msgs) ==
    /\ stderr' = stderr \o msgs
    /\ exit_code' = 0
    /\ pc' = "done"
    /\ UNCHANGED storage

\* Variant: a handler that deletes what the run has uploaded before exiting.
FailWithRollback(msgs) ==
    /\ stderr' = stderr \o msgs
    /\ exit_code' = 1
    /\ pc' = "done"
    /\ storage' = [o \in DOMAIN storage |->
                     IF \E i \in 1..Len(net) :
                          net[i].ok /\ o = << net[i].bucket, net[i].key >>
                     THEN NoBuffer ELSE storage[o]]

\* An error path of upload: the messages go to the error stream and the
\* process exits with code 1 (raise typer.Exit(code=1)); the handlers do
\* nothing else, so the object store stays as the run has left it.
Fail(msgs) ==
    /\ stderr' = stderr \o msgs
    /\ exit_code' = 1
    /\ pc' = "done"
    /\ UNCHANGED storage

\* Variant: the two keys taken from each other's field.
LoadedSwapped(u, p) ==
    [ok |-> TRUE, msgs |-> << >>, url |-> p, preview_url |-> u]

\* Lines 148-149, when the entry passes the checks.
Loaded(u, p) ==
    [ok |-> TRUE, msgs |-> << >>, url |-> u, preview_url |-> p]

NotLoaded(msgs) ==
    [ok |-> FALSE, msgs |-> msgs, url |-> PyNone, preview_url |-> PyNone]

\* Variant: the message reports the index in place of the length.
IndexErrorWrongCount(index, images) ==
    IF index < 0 \/ index >= Len(images)
    THEN << Msg("index_out_of_range", "", index, index) >>
    ELSE << >>

\* Lines 142-145: the index check and its message.
IndexError(index, images) ==
    IF index < 0 \/ index >= Len(images)
    THEN << Msg("index_out_of_range", "", index, Len(images)) >>
    ELSE << >>

\* Variant: only url is checked.
FieldsMissingUrlOnly(u, p) ==
    Falsy(u)

\* Lines 151-154: both keys must be present and non-empty.
FieldsMissing(u, p) ==
    Falsy(u) \/ Falsy(p)

\* Lines 132-154: the manifest at summit_path and the entry at index; the
\* messages are those of the error stream, the last one the handler's.
SelectEntry(summit, index) ==
    IF summit.kind = "missing" THEN NotLoaded(OnFileNotFound)
    ELSE IF summit.kind = "bad_yaml" THEN NotLoaded(OnYAMLError)
    ELSE IF summit.kind = "null" THEN NotLoaded(OnException("AttributeError"))
    ELSE IF ~summit.has_images \/ summit.images = << >>
    THEN NotLoaded(<< Msg("no_images", "", 0, 0) >> \o OnExit)
    ELSE IF IndexError(index, summit.images) # << >>
    THEN NotLoaded(IndexError(index, summit.images) \o OnExit)
    ELSE LET image_entry == summit.images[index + 1]
         IN  IF ~image_entry.is_mapping
             THEN NotLoaded(OnException("AttributeError"))
             ELSE IF FieldsMissing(image_entry.url, image_entry.preview_url)
             THEN NotLoaded(<< Msg("missing_field", "", 0, 0) >> \o OnExit)
             ELSE Loaded(image_entry.url, image_entry.preview_url)

\* Lines 131-158: read the manifest and select the entry.
LoadManifest ==
    /\ pc = "load"
    /\ trace' = Append(trace, "load")
    /\ LET r == SelectEntry(args.summit, args.index)
       IN  /\ url' = r.url
           /\ preview_url' = r.preview_url
           /\ IF r.ok
              THEN /\ stdout' = stdout \o << "reading", "processing",
                                            "main_url", "preview_url" >>
                   /\ pc' = "resize_main"
                   /\ UNCHANGED << stderr, exit_code, storage >>
              ELSE /\ stdout' = stdout \o << "reading" >>
                   /\ Fail(r.msgs)
    /\ UNCHANGED << runs, args, image_file, env, main_image, preview_image,
                    last_resize, storage_at_start, clients, net >>

\* The handler a failed resize_image reaches.
OnResizeError(r) ==
    IF r.error = "FileNotFoundError" THEN OnFileNotFound
    ELSE OnException(r.error)

\* Lines 161-163: main_image = resize_image(image_path, 1600).
ResizeMain ==
    /\ pc = "resize_main"
    /\ \E f \in SourceImages :
         \E r \in {resize_image(f, MainWidth)} :
             /\ image_file' = f
             /\ last_resize' = r
             /\ trace' = Append(trace, "resize_main")
             /\ IF r.ok
                THEN /\ main_image' = r.image
                     /\ pc' = "resize_preview"
                     /\ UNCHANGED << stderr, exit_code, storage >>
                ELSE /\ Fail(OnResizeError(r))
                     /\ UNCHANGED main_image
    /\ stdout' = stdout \o << "resizing", "creating_main" >>
    /\ UNCHANGED << runs, args, env, url, preview_url, preview_image,
                    storage_at_start, clients, net >>

\* Lines 165-166: preview_image = resize_image(image_path, 75).
ResizePreview ==
    /\ pc = "resize_preview"
    /\ \E r \in {resize_image(image_file, PreviewWidth)} :
           /\ last_resize' = r
           /\ trace' = Append(trace, "resize_preview")
           /\ IF r.ok
              THEN /\ preview_image' = r.image
                   /\ pc' = "upload_main"
                   /\ UNCHANGED << stderr, exit_code, storage >>
              ELSE /\ Fail(OnResizeError(r))
                   /\ UNCHANGED preview_image
    /\ stdout' = stdout \o << "creating_preview" >>
    /\ UNCHANGED << runs, args, image_file, env, url, preview_url, main_image,
                    storage_at_start, clients, net >>

\* Variant: only the access key is checked.
CredentialsMissingAccessOnly(e) ==
    Falsy(e.S3_ACCESS_KEY)

\* Line 68: both credentials must be set and non-empty.
CredentialsMissing(e) ==
    Falsy(e.S3_ACCESS_KEY) \/ Falsy(e.S3_SECRET_KEY)

\* Variant: an existing object is not overwritten.
PutIfAbsent(store, bucket, s3_key, file_obj) ==
    IF store[<< bucket, s3_key >>] = NoBuffer
    THEN [store EXCEPT ![<< bucket, s3_key >>] = file_obj]
    ELSE store

\* What upload_fileobj leaves in the store when it returns (lines 82-87).
Put(store, bucket, s3_key, file_obj) ==
    [store EXCEPT ![<< bucket, s3_key >>] = file_obj]

\* Variant: upload_to_s3 reports the exception and returns, so that the
\* command carries on.
UploadErrorSwallowed(next_pc, code) ==
    /\ stderr' = stderr \o OnException("ClientError")
    /\ pc' = next_pc
    /\ exit_code' = code
    /\ UNCHANGED storage

\* An exception of upload_fileobj leaves upload_to_s3 and upload's try block
\* for the handler of lines 181-183: whatever was to follow is skipped.
UploadRaises(next_pc, code) ==
    Fail(OnException("ClientError"))

\* Lines 64-88: upload_to_s3(file_obj, s3_key, bucket).  The environment is
\* read on every call and is the same on both.  upload_fileobj either stores
\* the object or raises.  next_pc, code and banner are what follows a return.
upload_to_s3(file_obj, s3_key, bucket, step, before, next_pc, code, banner) ==
    /\ trace' = Append(trace, step)
    /\ \E e \in (IF env = EnvUnread THEN Envs ELSE {env}) :
         /\ env' = e
         /\ IF CredentialsMissing(e)
            THEN /\ Fail(<< Msg("credentials", "", 0, 0) >> \o OnExit)
                 /\ stdout' = stdout \o before
                 /\ UNCHANGED << clients, net >>
            ELSE /\ clients' = clients + 1
                 /\ \E done \in BOOLEAN :
                      /\ net' = Append(net, [bucket |-> bucket, key |-> s3_key,
                                             body |-> file_obj, ok |-> done])
                      /\ IF done
                         THEN /\ storage' = Put(storage, bucket, s3_key, file_obj)
                              /\ stdout' = stdout \o before \o << "uploaded" >>
                                             \o banner
                              /\ pc' = next_pc
                              /\ exit_code' = code
                              /\ UNCHANGED stderr
                         ELSE /\ UploadRaises(next_pc, code)
                              /\ stdout' = stdout \o before

\* Lines 169-170: upload_to_s3(main_image, url, bucket).
UploadMain ==
    /\ pc = "upload_main"
    /\ upload_to_s3(main_image, url, args.bucket, "upload_main",
                    << "uploading" >>, "upload_preview", 0 - 1, << >>)
    /\ UNCHANGED << runs, args, image_file, url, preview_url, main_image,
                    preview_image, last_resize, storage_at_start >>

\* Lines 171-173: upload_to_s3(preview_image, preview_url, bucket), then the
\* success banner and the normal return (exit code 0).
UploadPreview ==
    /\ pc = "upload_preview"
    /\ upload_to_s3(preview_image, preview_url, args.bucket, "upload_preview",
                    << >>, "done", 0, << "success" >>)
    /\ UNCHANGED << runs, args, image_file, url, preview_url, main_image,
                    preview_image, last_resize, storage_at_start >>

Next ==
    \/ Invoke
    \/ Exit
    \/ LoadManifest
    \/ ResizeMain
    \/ ResizePreview
    \/ UploadMain
    \/ UploadPreview

Spec == Init /\ [][Next]_vars

\* The command is sequential code: once invoked, each step runs.
Run ==
    \/ LoadManifest
    \/ ResizeMain
    \/ ResizePreview
    \/ UploadMain
    \/ UploadPreview

LiveSpec == Spec /\ WF_vars(Run)

(***************************************************************************)
(* resize_image on its own: any file, any target width.                    *)
(***************************************************************************)
InitResize ==
    /\ pc = "call"
    /\ runs = 0
    /\ args = NoArgs
    /\ image_file \in ResizeImages
    /\ env = EnvUnread
    /\ url = PyNone
    /\ preview_url = PyNone
    /\ main_image = NoBuffer
    /\ preview_image = NoBuffer
    /\ last_resize = NoResize
    /\ storage = [o \in Buckets \X Keys |-> NoBuffer]
    /\ storage_at_start = storage
    /\ trace = << >>
    /\ clients = 0
    /\ net = << >>
    /\ stdout = << >>
    /\ stderr = << >>
    /\ exit_code = 0 - 1

ResizeCall ==
    /\ pc = "call"
    /\ \E w \in TargetWidths : last_resize' = resize_image(image_file, w)
    /\ pc' = "returned"
    /\ UNCHANGED << runs, args, image_file, env, url, preview_url, main_image,
                    preview_image, storage, storage_at_start, trace, clients,
                    net, stdout, stderr, exit_code >>

ResizeSpec == InitResize /\ [][ResizeCall]_vars

(***************************************************************************)
(* Properties.                                                             *)
(***************************************************************************)

IsPrefix(a, b) ==
    Len(a) <= Len(b) /\ \A i \in 1..Len(a) : a[i] = b[i]

InSeq(x, q) ==
    \E i \in 1..Len(q) : q[i] = x

\* The steps of a run that nothing stops.
FullRun ==
    << "load", "resize_main", "resize_preview", "upload_main",
       "upload_preview" >>

Running == pc \in {"load", "resize_main", "resize_preview", "upload_main",
                   "upload_preview"}

Unset(v) == v \in {PyNone, ""}

\* The entry --index selects, when the manifest has one there.
HasSelection ==
    /\ args.summit.kind = "mapping"
    /\ args.summit.has_images
    /\ args.index >= 0
    /\ args.index < Len(args.summit.images)

Selected == args.summit.images[args.index + 1]

\* C1: the steps of a run occur in the order load, resize at 1600, resize
\* at 75, upload main, upload preview, success; a failure ends the run at
\* the failing step; no upload is attempted unless both resizes completed,
\* and the preview upload is not attempted unless the main upload succeeded.
C1_StepOrder ==
    /\ IsPrefix(trace, FullRun)
    /\ (trace # << >> /\ trace[Len(trace)] = "resize_main"
          => last_resize.target_width = MainWidth)
    /\ (trace # << >> /\ trace[Len(trace)] = "resize_preview"
          => last_resize.target_width = PreviewWidth)
    /\ (InSeq("success", stdout)
          => trace = FullRun /\ pc = "done" /\ stdout[Len(stdout)] = "success")
    /\ (stderr # << >> => pc = "done" /\ ~ENABLED Run)
    /\ (InSeq("upload_main", trace) \/ net # << >> \/ clients > 0
          => /\ main_image.width = MainWidth
             /\ preview_image.width = PreviewWidth
             /\ InSeq("resize_main", trace) /\ InSeq("resize_preview", trace))
    /\ (InSeq("upload_preview", trace)
          => Len(net) >= 1 /\ net[1].ok /\ net[1].key = url)
    /\ Len(net) <= 2
    /\ (Len(net) = 2 => net[1].ok)

C1_Witness ==
    /\ pc = "done"
    /\ trace = << "load", "resize_main", "resize_preview", "upload_main" >>
    /\ Len(net) = 1
    /\ ~net[1].ok

\* C2: with S3_ACCESS_KEY or S3_SECRET_KEY unset or empty the run exits with
\* code 1 without creating a storage client or making a network call, and no
\* object is written.  (A run that ends before it reads the environment has
\* done none of these either.)
C2_NoCredentialsNoNetwork ==
    /\ (env # EnvUnread /\ (Unset(env.S3_ACCESS_KEY) \/ Unset(env.S3_SECRET_KEY))
          => /\ pc = "done"
             /\ exit_code = 1
             /\ clients = 0
             /\ net = << >>
             /\ storage = storage_at_start
             /\ \E i \in 1..Len(stderr) : stderr[i].kind = "credentials")
    /\ (pc = "done" /\ env = EnvUnread
          => exit_code = 1 /\ clients = 0 /\ net = << >>
             /\ storage = storage_at_start)

C2_Witness ==
    /\ pc = "done"
    /\ env.S3_ACCESS_KEY = "secret"
    /\ env.S3_SECRET_KEY = ""
    /\ exit_code = 1

\* C3: with a non-empty images list of length n and an index < 0 or >= n,
\* the run exits with code 1, reports the index and n in an error message,
\* and calls neither resize_image nor upload_to_s3.
C3_IndexOutOfRange ==
    /\ ~(pc \in {"idle", "load"})
    /\ args.summit.kind = "mapping"
    /\ args.summit.has_images
    /\ Len(args.summit.images) > 0
    /\ (args.index < 0 \/ args.index >= Len(args.summit.images))
    => /\ pc = "done"
       /\ exit_code = 1
       /\ \E i \in 1..Len(stderr) :
            /\ stderr[i].kind = "index_out_of_range"
            /\ stderr[i].index = args.index
            /\ stderr[i].n = Len(args.summit.images)
       /\ trace = << "load" >>
       /\ last_resize = NoResize
       /\ image_file = ImageUnread
       /\ clients = 0
       /\ net = << >>

C3_Witness ==
    /\ pc = "done"
    /\ args.summit.has_images
    /\ Len(args.summit.images) = 2
    /\ args.index = 3

\* C4: with an entry at the index that has both keys, an image that resizes
\* at both widths, both credentials and no failing upload, the run makes
\* exactly two uploads into the given bucket, the width-1600 variant to the
\* entry's url and then the width-75 variant to its preview_url, and exits
\* with code 0.
C4_TwoUploads ==
    /\ pc = "done"
    /\ HasSelection
    /\ Selected.is_mapping
    /\ ~Unset(Selected.url) /\ ~Unset(Selected.preview_url)
    /\ (image_file # ImageUnread
          => resize_image(image_file, MainWidth).ok
             /\ resize_image(image_file, PreviewWidth).ok)
    /\ (env # EnvUnread
          => ~Unset(env.S3_ACCESS_KEY) /\ ~Unset(env.S3_SECRET_KEY))
    /\ \A i \in 1..Len(net) : net[i].ok
    => /\ exit_code = 0
       /\ Len(net) = 2
       /\ net[1] = [bucket |-> args.bucket, key |-> Selected.url,
                    body |-> resize_image(image_file, MainWidth).image,
                    ok |-> TRUE]
       /\ net[2] = [bucket |-> args.bucket, key |-> Selected.preview_url,
                    body |-> resize_image(image_file, PreviewWidth).image,
                    ok |-> TRUE]
       /\ net[1].body.width = MainWidth
       /\ net[2].body.width = PreviewWidth

C4_Witness ==
    /\ pc = "done"
    /\ exit_code = 0
    /\ args.index = 1
    /\ args.bucket # S3_BUCKET
    /\ url # preview_url

\* What resize_image was given and what it returned.
SrcW == image_file.width

SrcH == image_file.height

TargetW == last_resize.target_width

Out == last_resize.image

\* floor(W * H0 / W0).
FloorHeight == (TargetW * SrcH) \div SrcW

\* C5 as stated: the output of resize_image has width W and height
\* round(W * H0 / W0), the nearest integer to the exact quotient.
C5_HeightRounded ==
    pc = "returned" /\ last_resize.ok
    => /\ Out.width = TargetW
       /\ Out.height = RoundHalfEven(TargetW * SrcH, SrcW)

\* C5, amended: the output of resize_image has width W and height
\* int(W * (H0 / W0)) in double precision, a truncation: floor(W * H0 / W0)
\* when the quotient is no integer, that or one less when it is; and
\* resize_image returns nothing when the height would be 0.
C5_HeightTruncated ==
    pc = "returned" /\ image_file.decodable
    => /\ (last_resize.ok
             => /\ Out.width = TargetW
                /\ Out.height >= 1
                /\ Out.height <= FloorHeight
                /\ Out.height >= FloorHeight - 1
                /\ ((TargetW * SrcH) % SrcW # 0 => Out.height = FloorHeight))
       /\ (FloorHeight = 0 => ~last_resize.ok)

\* The nearest integer is above the height resize_image chose.
C5_Witness ==
    /\ pc = "returned"
    /\ last_resize.ok
    /\ Out.height = FloorHeight
    /\ 2 * ((TargetW * SrcH) % SrcW) > SrcW

\* C6: an image whose mode has an alpha channel or a palette reaches the
\* JPEG encoder converted to RGB and resize_image returns a buffer; no mode
\* the encoder cannot write reaches it.
C6_AlphaConverted ==
    pc = "returned" /\ last_resize.encoder_mode # "none"
    => /\ last_resize.encoder_mode \in JpegModes
       /\ (image_file.mode \in {"RGBA", "LA", "P"}
             => last_resize.encoder_mode = "RGB" /\ last_resize.ok)

\* C7, the exit codes: 0 exactly when the manifest was loaded, both resizes
\* completed and both uploads succeeded; 1 otherwise, with a message on the
\* error stream and no success banner.
C7_Codes ==
    /\ exit_code \in {0 - 1, 0, 1}
    /\ (pc = "done" <=> exit_code \in {0, 1})
    /\ (exit_code = 0
          <=> /\ pc = "done"
              /\ trace = FullRun
              /\ ~Unset(url) /\ ~Unset(preview_url)
              /\ main_image # NoBuffer /\ preview_image # NoBuffer
              /\ Len(net) = 2 /\ net[1].ok /\ net[2].ok)
    /\ (exit_code = 1 => stderr # << >> /\ ~InSeq("success", stdout))
    /\ (exit_code = 0 => stderr = << >> /\ InSeq("success", stdout))

\* C7: every run ends, with exit code 0 or 1 as C7_Codes says.
C7_ExitCodes ==
    [](C7_Codes) /\ ((pc = "load") ~> (pc = "done"))

\* A resize error path: the encoder rejects the image.
C7_Witness ==
    /\ pc = "done"
    /\ exit_code = 1
    /\ last_resize.error = "OSError"
    /\ Len(stderr) = 1

\* C8: with no images list, an empty one, or a selected entry without a
\* non-empty url or preview_url, the run exits with code 1 before the image
\* is opened: no resize_image call, no upload.
C8_NoEntryNoResize ==
    /\ ~(pc \in {"idle", "load"})
    /\ \/ args.summit.kind = "null"
       \/ args.summit.kind = "mapping"
          /\ (~args.summit.has_images \/ args.summit.images = << >>)
       \/ HasSelection
          /\ (Unset(Selected.url) \/ Unset(Selected.preview_url))
    => /\ pc = "done"
       /\ exit_code = 1
       /\ trace = << "load" >>
       /\ image_file = ImageUnread
       /\ last_resize = NoResize
       /\ clients = 0
       /\ net = << >>

C8_Witness ==
    /\ pc = "done"
    /\ HasSelection
    /\ Selected.is_mapping
    /\ ~Unset(Selected.url)
    /\ Selected.preview_url = ""

\* The objects this run has stored, by key.
Written == {<< net[i].bucket, net[i].key >> : i \in {j \in 1..Len(net) : net[j].ok}}

LastWrite(o) ==
    LET js == {j \in 1..Len(net) :
                 net[j].ok /\ o = << net[j].bucket, net[j].key >>}
    IN  net[CHOOSE j \in js : \A l \in js : l <= j].body

\* C9: uploads are not rolled back.  The store differs from the one the run
\* found only by the run's successful uploads, to url and preview_url of
\* the given bucket; when the main upload succeeds and the preview upload
\* fails, the run exits with code 1 and url holds the main variant; a run
\* that exits with code 0 has written both keys, whatever they held.
C9_NoRollback ==
    /\ \A o \in DOMAIN storage :
         storage[o] = IF o \in Written THEN LastWrite(o) ELSE storage_at_start[o]
    /\ \A i \in 1..Len(net) :
         /\ net[i].bucket = args.bucket
         /\ net[i].key = IF i = 1 THEN url ELSE preview_url
         /\ net[i].body = IF i = 1 THEN main_image ELSE preview_image
         /\ net[i].body # NoBuffer
    /\ (Len(net) = 2 /\ net[1].ok /\ ~net[2].ok
          => /\ pc = "done"
             /\ exit_code = 1
             /\ storage[<< args.bucket, url >>] = main_image)
    /\ (pc = "done" /\ exit_code = 0
          => Written = {<< args.bucket, url >>, << args.bucket, preview_url >>})

\* The main variant is stored, the preview is not, and the run has failed.
C9_Witness ==
    /\ pc = "done"
    /\ exit_code = 1
    /\ Len(net) = 2 /\ net[1].ok /\ ~net[2].ok
    /\ url # preview_url
    /\ storage[<< args.bucket, url >>] = main_image
    /\ storage[<< args.bucket, preview_url >>] = NoBuffer

\* C10 as stated: after a run that exits with code 0, url holds the
\* width-1600 variant and preview_url the width-75 variant, also when the two
\* keys are the same string.
C10_BothVariantsStored ==
    pc = "done" /\ exit_code = 0
    => /\ storage[<< args.bucket, url >>] = main_image
       /\ storage[<< args.bucket, url >>].width = MainWidth
       /\ storage[<< args.bucket, preview_url >>] = preview_image
       /\ storage[<< args.bucket, preview_url >>].width = PreviewWidth

\* C10, amended: after a run that exits with code 0, preview_url holds the
\* width-75 variant, and url holds the width-1600 variant when the two keys
\* differ; when they are the same string the key holds the preview, which was
\* written last.
C10_LastWriteWins ==
    pc = "done" /\ exit_code = 0
    => /\ storage[<< args.bucket, preview_url >>] = preview_image
       /\ storage[<< args.bucket, preview_url >>].width = PreviewWidth
       /\ (url # preview_url
             => /\ storage[<< args.bucket, url >>] = main_image
                /\ storage[<< args.bucket, url >>].width = MainWidth)

C10_Witness ==
    /\ pc = "done"
    /\ exit_code = 0
    /\ url = preview_url

====
